---- MODULE Spec2Model ----
(***************************************************************************)
(* The two ingestion jobs of hoshina-jobs (jobs/osm-ingestion and          *)
(* jobs/gadm-ingestion) as one state machine: a run of either driver       *)
(* (main) against a process environment, a data directory and a database.  *)
(*                                                                         *)
(* Text (environment values, file names, the MD5 side-car) is a sequence   *)
(* of tokens: " " is one whitespace character, every other token is a run  *)
(* of non-whitespace characters.  A file's content is the sequence of the  *)
(* chunks written to it.                                                   *)
(***************************************************************************)
EXTENDS Integers, Sequences, FiniteSets, TLC

\* Longest response body, in chunks, that the remote server sends.
MaxChunks == 2

\* The longest output of osm2pgsql, in lines.
MaxLines == 2

\* The most runs of a job against one data directory and database.
MaxRuns == 2

-----------------------------------------------------------------------------
(* str.strip(), str.lower(), int()                                         *)

RECURSIVE LStrip(_)
LStrip(s) == IF s # <<>> /\ Head(s) = " " THEN LStrip(Tail(s)) ELSE s

RECURSIVE RStrip(_)
RStrip(s) ==
    IF s # <<>> /\ s[Len(s)] = " " THEN RStrip(SubSeq(s, 1, Len(s) - 1)) ELSE s

Strip(s) == RStrip(LStrip(s))

\* str.rstrip("/")
RECURSIVE RStripSlash(_)
RStripSlash(s) ==
    IF s # <<>> /\ s[Len(s)] = "/" THEN RStripSlash(SubSeq(s, 1, Len(s) - 1))
    ELSE s

LowerTok(t) ==
    CASE t = "TRUE"  -> "true"
      [] t = "FALSE" -> "false"
      [] t = "INFO"  -> "info"
      [] t = "JSON"  -> "json"
      [] t = "XML"   -> "xml"
      [] OTHER       -> t

UpperTok(t) ==
    CASE t = "true"  -> "TRUE"
      [] t = "false" -> "FALSE"
      [] t = "info"  -> "INFO"
      [] t = "debug" -> "DEBUG"
      [] t = "json"  -> "JSON"
      [] t = "verbose" -> "VERBOSE"
      [] OTHER       -> t

Lower(s) == [i \in 1..Len(s) |-> LowerTok(s[i])]
Upper(s) == [i \in 1..Len(s) |-> UpperTok(s[i])]

\* The decimal literals that occur in the modelled environments.
IntLiterals == [t \in {"5432", "6543", "2000", "4", "8"} |->
                  CASE t = "5432" -> 5432
                    [] t = "6543" -> 6543
                    [] t = "2000" -> 2000
                    [] t = "4"    -> 4
                    [] t = "8"    -> 8]

\* int(value): surrounding whitespace is ignored, anything else but one
\* decimal literal is a ValueError.
IntParses(s) == Len(Strip(s)) = 1 /\ Strip(s)[1] \in DOMAIN IntLiterals
IntOf(s) == IntLiterals[Strip(s)[1]]

-----------------------------------------------------------------------------
(* config.py of both jobs                                                  *)

REGIONS == {"africa", "antarctica", "asia", "australia-oceania",
            "central-america", "europe", "north-america", "south-america",
            "planet"}

DefaultDbPort == 5432
DefaultCacheSizeMb == 2000
DefaultNumProcesses == 4

\* os.getenv(key, default): env is the mapping os.environ, a variable is
\* unset when it is no key of it.
Getenv(e, key, default) == IF key \in DOMAIN e THEN e[key] ELSE default

\* get_env_bool with the default dropped: an unset variable reads as false.
GetEnvBoolNoDefault(e, key, default) ==
    Lower(Getenv(e, key, <<>>)) \in {<<"true">>, <<"1">>, <<"yes">>, <<"on">>}

\* get_env_bool
GetEnvBool(e, key, default) ==
    LET value == Lower(Getenv(e, key, <<>>))
    IN  IF value = <<>> THEN default
        ELSE value \in {<<"true">>, <<"1">>, <<"yes">>, <<"on">>}

\* get_env_int with the ValueError swallowed: a value int() rejects reads as
\* the default.
GetEnvIntDefaultOnError(e, key, default) ==
    IF key \in DOMAIN e /\ IntParses(e[key])
    THEN [ok |-> TRUE, value |-> IntOf(e[key])]
    ELSE [ok |-> TRUE, value |-> default]

\* get_env_int: [ok, value] or the ConfigurationError it raises.
GetEnvInt(e, key, default) ==
    IF key \notin DOMAIN e \/ e[key] = <<>>
    THEN [ok |-> TRUE, value |-> default]
    ELSE IF IntParses(e[key])
         THEN [ok |-> TRUE, value |-> IntOf(e[key])]
         ELSE [ok |-> FALSE,
               error |-> [kind |-> "not_integer", key |-> key]]

Required(key) == [ok |-> FALSE, error |-> [kind |-> "required", key |-> key]]

\* load_config of the GADM job.  GADM_GEOPACKAGE_URL is tested as read,
\* without strip().
GadmGeopackageUrlMissing(e) ==
    Getenv(e, "GADM_GEOPACKAGE_URL", <<>>) = <<>>

GadmLoadConfig(e) ==
    LET db_host     == Strip(Getenv(e, "DB_HOST", <<>>))
        db_name     == Strip(Getenv(e, "DB_NAME", <<>>))
        db_user     == Strip(Getenv(e, "DB_USER", <<>>))
        db_password == Strip(Getenv(e, "DB_PASSWORD", <<>>))
        db_port     == GetEnvInt(e, "DB_PORT", DefaultDbPort)
    IN  IF db_host = <<>> THEN Required("DB_HOST")
        ELSE IF db_name = <<>> THEN Required("DB_NAME")
        ELSE IF db_user = <<>> THEN Required("DB_USER")
        ELSE IF db_password = <<>> THEN Required("DB_PASSWORD")
        ELSE IF ~db_port.ok THEN db_port
        ELSE IF GadmGeopackageUrlMissing(e)
             THEN Required("GADM_GEOPACKAGE_URL")
        ELSE [ok |-> TRUE,
              config |-> [db_host |-> db_host, db_port |-> db_port.value,
                          db_name |-> db_name, db_user |-> db_user,
                          db_password |-> db_password,
                          data_dir |-> Getenv(e, "DATA_DIR", <<"/app/data">>),
                          ogr2ogr_path |->
                              Getenv(e, "OGR2OGR_PATH", <<"/usr/bin/ogr2ogr">>),
                          gadm_geopackage_url |-> e["GADM_GEOPACKAGE_URL"]]]

\* load_config of the OSM job.
OsmRegionMissing(e) == Strip(Getenv(e, "OSM_REGION", <<>>)) = <<>>

OsmLoadConfig(e) ==
    LET region      == Strip(Getenv(e, "OSM_REGION", <<>>))
        db_host     == Strip(Getenv(e, "DB_HOST", <<>>))
        db_name     == Strip(Getenv(e, "DB_NAME", <<>>))
        db_user     == Strip(Getenv(e, "DB_USER", <<>>))
        db_password == Strip(Getenv(e, "DB_PASSWORD", <<>>))
        db_port     == GetEnvInt(e, "DB_PORT", DefaultDbPort)
        cache       == GetEnvInt(e, "CACHE_SIZE_MB", DefaultCacheSizeMb)
        procs       == GetEnvInt(e, "NUM_PROCESSES", DefaultNumProcesses)
        log_level   == Upper(Getenv(e, "LOG_LEVEL", <<"INFO">>))
        log_format  == Lower(Getenv(e, "LOG_FORMAT", <<"json">>))
    IN  IF OsmRegionMissing(e) THEN Required("OSM_REGION")
        ELSE IF ~(Len(region) = 1 /\ region[1] \in REGIONS)
             THEN [ok |-> FALSE,
                   error |-> [kind |-> "invalid", key |-> "OSM_REGION"]]
        ELSE IF db_host = <<>> THEN Required("DB_HOST")
        ELSE IF db_name = <<>> THEN Required("DB_NAME")
        ELSE IF db_user = <<>> THEN Required("DB_USER")
        ELSE IF db_password = <<>> THEN Required("DB_PASSWORD")
        ELSE IF ~db_port.ok THEN db_port
        ELSE IF ~cache.ok THEN cache
        ELSE IF ~procs.ok THEN procs
        ELSE IF log_level \notin {<<"DEBUG">>, <<"INFO">>, <<"WARNING">>,
                                  <<"ERROR">>}
             THEN [ok |-> FALSE,
                   error |-> [kind |-> "invalid", key |-> "LOG_LEVEL"]]
        ELSE IF log_format \notin {<<"json">>, <<"text">>}
             THEN [ok |-> FALSE,
                   error |-> [kind |-> "invalid", key |-> "LOG_FORMAT"]]
        ELSE [ok |-> TRUE,
              config |-> [region |-> region[1],
                          db_host |-> db_host, db_port |-> db_port.value,
                          db_name |-> db_name, db_user |-> db_user,
                          db_password |-> db_password,
                          cache_size_mb |-> cache.value,
                          num_processes |-> procs.value,
                          cleanup |-> GetEnvBool(e, "CLEANUP", TRUE),
                          drop_slim_tables |->
                              GetEnvBool(e, "DROP_SLIM_TABLES", FALSE),
                          data_dir |-> Getenv(e, "DATA_DIR", <<"/app/data">>),
                          geofabrik_base_url |->
                              RStripSlash(Getenv(e, "GEOFABRIK_BASE_URL",
                                    <<"https://download.geofabrik.de">>)),
                          log_level |-> log_level,
                          log_format |-> log_format]]

LoadConfig(j, e) == IF j = "osm" THEN OsmLoadConfig(e) ELSE GadmLoadConfig(e)

-----------------------------------------------------------------------------
(* State                                                                   *)

VARIABLES
    job,       \* "osm" or "gadm": which driver runs
    force,     \* the --force flag (GADM)
    env,       \* os.environ: variable name -> text
    config,    \* the Config load_config returned
    pc,        \* the driver's position
    outcome,   \* how main ended: returned an exit code, or raised
    exc,       \* the exception that ended the run, caught by main or not
    fs,        \* the files on disk: path -> content
    fs0,       \* the files on disk when the run started
    db,        \* the database: encoding, extensions, tables
    response,  \* the chunks of the HTTP response body not yet read
    raw_file,  \* main's raw_file / the file the response is written to
    filtered_file,  \* main's filtered_file
    layers,    \* upload_levels_gpkg: the layers not yet imported
    phase_log, \* upload_to_database: per output line, the phase and the print
    history,   \* across runs: the run's number, and what the last osmium that
               \* exited 0 and the last download that completed wrote
    trace      \* what the run did, in order

vars == <<job, force, env, config, pc, outcome, exc, fs, fs0, db, response,
          raw_file, filtered_file, layers, phase_log, history, trace>>

Running == [kind |-> "running", code |-> -1]
Returned(code) == [kind |-> "returned", code |-> code]
Raised == [kind |-> "raised", code |-> -1]

NoExc == [type |-> "", kind |-> "", key |-> ""]
Exc(type) == [type |-> type, kind |-> "", key |-> ""]

NoPath == [dir |-> <<>>, name |-> <<>>]

\* Nothing written yet.
NoFile == <<"(no file)">>
FirstRun == [run |-> 1, zip |-> NoFile, filtered |-> NoFile]
Exists(f, path) == path \in DOMAIN f

\* path.unlink(): the mapping without the path.
Unlink(f, path) == [p \in DOMAIN f \ {path} |-> f[p]]

\* open(path, 'wb') followed by writes: the path holds exactly content.
WriteFile(f, path, content) ==
    [p \in DOMAIN f \cup {path} |-> IF p = path THEN content ELSE f[p]]

Ev(op, arg) == <<op, arg>>
Did(op) == {i \in 1..Len(trace) : trace[i][1] = op}
Count(op) == Cardinality(Did(op))

-----------------------------------------------------------------------------
(* osm-ingestion: config.py paths, database.py, download.py, filter.py,    *)
(* upload.py                                                               *)

\* Config.raw_dir / Config.filtered_dir
OsmRawDir(c) == c.data_dir \o <<"raw">>
OsmFilteredDir(c) == c.data_dir \o <<"filtered">>

\* download_region: output_file
OsmOutputFile(c) ==
    [dir |-> OsmRawDir(c), name |-> <<c.region, "-latest", ".osm", ".pbf">>]

\* Config.get_download_url
OsmDownloadUrl(c) ==
    IF c.region = "planet"
    THEN IF c.geofabrik_base_url = <<"https://download.geofabrik.de">>
         THEN <<"https://planet.openstreetmap.org/pbf", "/",
                "planet", "-latest", ".osm", ".pbf">>
         ELSE c.geofabrik_base_url \o <<"/", "planet", "-latest", ".osm", ".pbf">>
    ELSE c.geofabrik_base_url \o <<"/", c.region, "-latest", ".osm", ".pbf">>

\* Path.stem: the name without its last suffix.
IsSuffixTok(t) == t \in {".osm", ".pbf", ".zip", ".gpkg", ".md5"}
Stem(name) ==
    IF Len(name) > 1 /\ IsSuffixTok(name[Len(name)])
    THEN SubSeq(name, 1, Len(name) - 1) ELSE name

\* str.replace(tok, "")
RECURSIVE RemoveTok(_, _)
RemoveTok(s, tok) ==
    IF s = <<>> THEN <<>>
    ELSE IF Head(s) = tok THEN RemoveTok(Tail(s), tok)
    ELSE <<Head(s)>> \o RemoveTok(Tail(s), tok)

\* filter_osm_data: output_file
OsmFilteredFile(c, input_file) ==
    [dir |-> OsmFilteredDir(c),
     name |-> RemoveTok(Stem(input_file.name), "-latest")
              \o <<"-roads", ".osm", ".pbf">>]

\* check_existing_data: the table names of its query
OsmExpectedTables == {"planet_osm_point", "planet_osm_line", "planet_osm_polygon"}
GadmExpectedTables == {"admin0", "admin1", "admin2", "admin3", "admin4", "admin5"}
ExpectedTables(j) == IF j = "osm" THEN OsmExpectedTables ELSE GadmExpectedTables

\* SELECT EXISTS (... WHERE table_name IN (...))
CheckExistingData(j, d) == d.tables \cap ExpectedTables(j) # {}

\* The tables osm2pgsql --slim --create leaves (with --drop: no slim tables).
Osm2pgsqlTables(drop) ==
    {"planet_osm_point", "planet_osm_line", "planet_osm_polygon",
     "planet_osm_roads"}
    \cup (IF drop THEN {} ELSE {"planet_osm_nodes", "planet_osm_ways",
                                "planet_osm_rels"})

\* What osmium tags-filter w/highway writes for an input.
Filtered(content) == <<"roads">> \o content

\* The except clauses of download_region without the unlink.
DownloadErrorNoCleanup(f, path) == f

\* The except clauses of download_region: the partial file is removed.
DownloadErrorCleanup(f, path) == IF Exists(f, path) THEN Unlink(f, path) ELSE f

-----------------------------------------------------------------------------
(* The drivers: osm-ingestion/src/main.py and gadm-ingestion/src/__main__.py *)

\* OsmExitCode with the filter step returning the download step's code.
OsmExitCodeFilterAsDownload(type) ==
    CASE type = "ConfigurationError" -> 1
      [] type = "DownloadError"      -> 2
      [] type = "FilterError"        -> 2
      [] type = "DatabaseError"      -> 4
      [] type = "UploadError"        -> 4

\* The exit code main (OSM) returns for the error it catches at a step.
OsmExitCode(type) ==
    CASE type = "ConfigurationError" -> 1
      [] type = "DownloadError"      -> 2
      [] type = "FilterError"        -> 3
      [] type = "DatabaseError"      -> 4
      [] type = "UploadError"        -> 4

\* The except clauses of main: the exception types each driver catches.
Catches(j, type) ==
    IF j = "osm"
    THEN type \in {"ConfigurationError", "DatabaseError", "DownloadError",
                   "FilterError", "UploadError"}
    ELSE type = "ConfigurationError"

ExitCode(j, type) == IF j = "osm" THEN OsmExitCode(type) ELSE 1

\* OnError with the return missing from the download step's except clause.
OnErrorDownloadFallsThrough(step) ==
    IF step \in {"download", "download_streaming"} THEN "filter" ELSE "exit"

\* Where main goes from a step whose error it caught: every except clause
\* returns.
OnError(step) == "exit"

\* A step of main raised e: main returns the step's exit code when it catches
\* e's type, otherwise e propagates out of main.
Fail(e, step) ==
    /\ exc' = e
    /\ pc' = IF Catches(job, e.type) THEN OnError(pc) ELSE "exit"
    /\ outcome' = IF Catches(job, e.type) THEN Returned(ExitCode(job, e.type))
                  ELSE Raised
    /\ trace' = trace \o step \o <<Ev("fail", pc)>>

Return0(step) ==
    /\ pc' = "exit"
    /\ outcome' = Returned(0)
    /\ trace' = trace \o step

\* Step 1 of both drivers: load_config().
MainLoadConfig ==
    /\ pc = "load_config"
    /\ LET r == LoadConfig(job, env)
       IN  IF r.ok
           THEN /\ config' = r.config
                /\ pc' = "verify_connection"
                /\ trace' = trace \o <<Ev("ok", pc)>>
                /\ UNCHANGED <<outcome, exc>>
           ELSE /\ Fail([type |-> "ConfigurationError", kind |-> r.error.kind,
                         key |-> r.error.key], <<>>)
                /\ UNCHANGED config
    /\ UNCHANGED <<history, phase_log, job, force, fs0, env, fs, db, response, raw_file, filtered_file,
                   layers>>

\* OsmEncodingRefused with the GADM policy: no encoding is refused.
OsmEncodingAccepted(d) == FALSE

\* verify_connection of the OSM job: a database that is not UTF8 is refused.
OsmEncodingRefused(d) == d.encoding # "UTF8"

\* verify_connection of the GADM job: a database that is not UTF8 is updated.
GadmEncodingRefused(d) == FALSE

EncodingRefused(j, d) ==
    IF j = "osm" THEN OsmEncodingRefused(d) ELSE GadmEncodingRefused(d)

\* verify_connection(config).  res is what the server does: the connection
\* fails, pg_database has no row for the name, a statement fails, or all
\* statements succeed.  Nothing is committed unless the function gets to
\* conn.commit().  VerifyStatements is what the function sent to the server:
\* the query of the encoding, the update of the encoding (GADM), the
\* creation of the extensions, up to the statement that failed.
VerifyStatements(j, d, res) ==
    <<Ev("db_connect", "verify_connection")>>
    \o (IF res \in {"operational_error", "no_row"} THEN <<>>
        ELSE <<Ev("encoding", d.encoding)>>
             \o (IF EncodingRefused(j, d) THEN <<>>
                 ELSE (IF d.encoding # "UTF8"
                       THEN <<Ev("update_encoding", "UTF8")>> ELSE <<>>)
                      \o (IF res = "sql_error"
                          THEN <<Ev("sql_error", "verify_connection")>>
                          ELSE <<Ev("create_extension", "postgis"),
                                 Ev("create_extension", "hstore")>>)))

VerifyConnection ==
    /\ pc = "verify_connection"
    /\ \E res \in {"operational_error", "no_row", "sql_error", "ok"} :
         LET step == VerifyStatements(job, db, res)
         IN  IF res # "ok" \/ EncodingRefused(job, db)
             THEN /\ Fail(Exc("DatabaseError"), step)
                  /\ UNCHANGED db
             ELSE /\ db' = [db EXCEPT !.encoding = "UTF8",
                                      !.extensions = @ \cup {"postgis", "hstore"}]
                  /\ pc' = "check_existing_data"
                  /\ trace' = trace \o step \o <<Ev("ok", pc)>>
                  /\ UNCHANGED <<outcome, exc>>
    /\ UNCHANGED <<history, phase_log, job, force, fs0, env, config, fs, response, raw_file,
                   filtered_file, layers>>

\* ShortCircuit with the flag ignored: existing data always ends the run.
ShortCircuitIgnoresForce(j, existing, forced) == existing

\* ShortCircuit with the test of the flag inverted.
ShortCircuitForceInverted(j, existing, forced) ==
    IF j = "osm" THEN existing ELSE existing /\ forced

\* The condition under which main returns 0 after the existence check.
ShortCircuit(j, existing, forced) ==
    IF j = "osm" THEN existing ELSE existing /\ ~forced

\* What check_existing_data returned, as the run's record of it.
Existing(j, d) ==
    Ev("existing", IF CheckExistingData(j, d) THEN "true" ELSE "false")

\* Step 3 of both drivers: check_existing_data(config) and the skip.
MainCheckExistingData ==
    /\ pc = "check_existing_data"
    /\ \E res \in {"operational_error", "ok"} :
         LET step == <<Ev("db_connect", "check_existing_data")>>
         IN  IF res # "ok"
             THEN Fail(Exc("DatabaseError"), step)
             ELSE IF ShortCircuit(job, CheckExistingData(job, db), force)
                  THEN /\ Return0(step \o <<Existing(job, db), Ev("skip", pc)>>)
                       /\ UNCHANGED exc
                  ELSE /\ pc' = "download"
                       /\ trace' = trace \o step
                                   \o <<Existing(job, db), Ev("ok", pc)>>
                       /\ UNCHANGED <<outcome, exc>>
    /\ UNCHANGED <<history, phase_log, job, force, fs0, env, config, fs, db, response, raw_file,
                   filtered_file, layers>>

\* The bodies a server may send: at most MaxChunks chunks.
BodiesOf(chunks) ==
    UNION {[1..n -> chunks] : n \in 0..MaxChunks}

\* "" is an empty (keep-alive) chunk, which iter_content may yield.
OsmChunks == {"c", ""}

\* OsmSkipDownload that takes an empty file for a missing one.
OsmSkipDownloadNonEmpty(f, output_file) ==
    Exists(f, output_file) /\ f[output_file] # <<>>

\* download_region: "Check if file already exists".
OsmSkipDownload(f, output_file) == Exists(f, output_file)

\* download_region up to the first chunk: the skip when the file exists, or
\* requests.get, raise_for_status and open(output_file, 'wb').
OsmDownloadStart ==
    /\ job = "osm" /\ pc = "download"
    /\ LET output_file == OsmOutputFile(config)
       IN  IF OsmSkipDownload(fs, output_file)
           THEN /\ raw_file' = output_file
                /\ pc' = "filter"
                /\ trace' = trace \o <<Ev("start", pc), Ev("skip", pc), Ev("ok", pc)>>
                /\ UNCHANGED <<fs, response, outcome, exc>>
           ELSE \E res \in {"request_error", "http_status", "open_error", "ok"} :
                  LET step == <<Ev("start", pc), Ev("http_get", "osm")>>
                  IN  IF res # "ok"
                      THEN /\ fs' = DownloadErrorCleanup(fs, output_file)
                           /\ Fail(Exc("DownloadError"), step)
                           /\ UNCHANGED <<response, raw_file>>
                      ELSE /\ \E body \in BodiesOf(OsmChunks) : response' = body
                           /\ fs' = WriteFile(fs, output_file, <<>>)
                           /\ raw_file' = output_file
                           /\ pc' = "download_streaming"
                           /\ trace' = trace \o step \o <<Ev("write", "raw")>>
                           /\ UNCHANGED <<outcome, exc>>
    /\ UNCHANGED <<history, phase_log, job, force, fs0, env, config, db, filtered_file, layers>>

\* One iteration of "for chunk in response.iter_content": the chunk is
\* written, or the transfer (or the write) fails.
OsmDownloadChunk ==
    /\ job = "osm" /\ pc = "download_streaming" /\ response # <<>>
    /\ \E ok \in BOOLEAN :
         IF ok
         THEN /\ fs' = IF Head(response) # ""
                       THEN WriteFile(fs, raw_file, fs[raw_file] \o <<Head(response)>>)
                       ELSE fs
              /\ response' = Tail(response)
              /\ UNCHANGED <<pc, outcome, exc, trace>>
         ELSE /\ fs' = DownloadErrorCleanup(fs, raw_file)
              /\ response' = <<>>
              /\ Fail(Exc("DownloadError"), <<>>)
    /\ UNCHANGED <<history, phase_log, job, force, fs0, env, config, db, raw_file, filtered_file, layers>>

\* The body is exhausted: download_region returns output_file.
OsmDownloadDone ==
    /\ job = "osm" /\ pc = "download_streaming" /\ response = <<>>
    /\ pc' = "filter"
    /\ trace' = trace \o <<Ev("ok", "download")>>
    /\ UNCHANGED <<history, phase_log, job, force, fs0, env, config, outcome, exc, fs, db, response,
                   raw_file, filtered_file, layers>>

\* OsmNext with the filtered file cleaned up straight after the raw file.
OsmNextCleanupBeforeUpload(step) ==
    CASE step = "filter"      -> "cleanup_raw"
      [] step = "cleanup_raw" -> "cleanup_filtered"
      [] step = "upload"      -> "cleanup_filtered"

\* The order of main's steps from the filter step on.
OsmNext(step) ==
    CASE step = "filter"      -> "cleanup_raw"
      [] step = "cleanup_raw" -> "upload"
      [] step = "upload"      -> "cleanup_filtered"

\* filter_osm_data(config, raw_file): the skip when the output exists, or
\* filter_roads, which runs osmium and waits for it.  A failing osmium may
\* leave an output file behind.
OsmFilter ==
    /\ job = "osm" /\ pc = "filter"
    /\ LET output_file == OsmFilteredFile(config, raw_file)
       IN  IF Exists(fs, output_file)
           THEN /\ filtered_file' = output_file
                /\ pc' = OsmNext(pc)
                /\ trace' = trace \o <<Ev("start", pc), Ev("skip", pc), Ev("ok", pc)>>
                /\ UNCHANGED <<fs, outcome, exc, history>>
           ELSE \E res \in {"not_found", "exit_nonzero", "exit_nonzero_partial", "ok"} :
                  LET step == <<Ev("start", pc), Ev("osmium", res)>>
                  IN  IF res = "ok" /\ Exists(fs, raw_file)
                      THEN /\ fs' = WriteFile(fs, output_file, Filtered(fs[raw_file]))
                           /\ history' = [history EXCEPT
                                             !.filtered = Filtered(fs[raw_file])]
                           /\ filtered_file' = output_file
                           /\ pc' = OsmNext(pc)
                           /\ trace' = trace \o step
                                       \o <<Ev("write", "filtered"), Ev("ok", pc)>>
                           /\ UNCHANGED <<outcome, exc>>
                      ELSE /\ fs' = IF res = "exit_nonzero_partial"
                                    THEN WriteFile(fs, output_file, <<"roads">>)
                                    ELSE fs
                           /\ Fail(Exc("FilterError"), step)
                           /\ UNCHANGED <<filtered_file, history>>
    /\ UNCHANGED <<phase_log, job, force, fs0, env, config, db, response, raw_file, layers>>

\* main, between filter and upload: "Cleanup raw file if configured".
OsmCleanupRaw ==
    /\ job = "osm" /\ pc = "cleanup_raw"
    /\ IF config.cleanup /\ Exists(fs, raw_file)
       THEN /\ fs' = Unlink(fs, raw_file)
            /\ trace' = trace \o <<Ev("unlink", "raw")>>
       ELSE UNCHANGED <<fs, trace>>
    /\ pc' = OsmNext(pc)
    /\ UNCHANGED <<history, phase_log, job, force, fs0, env, config, outcome, exc, db, response,
                   raw_file, filtered_file, layers>>

\* The lines osm2pgsql writes, stripped.
OutputLines ==
    {"Reading in file: europe.osm-roads.osm.pbf",
     "Processing: Node(100k 10.0k/s)",
     "Processing: Node(100k 10.0k/s) Way(5k 1.00k/s)",
     "Processing: Way(5k 1.00k/s)",
     "Processing: Relation(1k 1.00k/s)",
     "Creating indexes on planet_osm_line",
     "Node stats: total(100), max(100)"}

\* The outputs of one osm2pgsql process: at most MaxLines lines.
OutputsOf(lines) == UNION {[1..n -> lines] : n \in 0..MaxLines}

\* The substrings upload_to_database searches for that occur in a line.
Substrings(line) ==
    CASE line = "Reading in file: europe.osm-roads.osm.pbf" ->
             {"Reading in file:"}
      [] line = "Processing: Node(100k 10.0k/s)" ->
             {"Processing: Node", "Node("}
      [] line = "Processing: Node(100k 10.0k/s) Way(5k 1.00k/s)" ->
             {"Processing: Node", "Node("}
      [] line = "Processing: Way(5k 1.00k/s)" ->
             {"Processing: Way"}
      [] line = "Processing: Relation(1k 1.00k/s)" ->
             {"Processing: Relation"}
      [] line = "Creating indexes on planet_osm_line" ->
             {"Creating indexes"}
      [] OTHER -> {}

\* sub in line
Contains(line, sub) == sub \in Substrings(line)

\* "if processing_phase != name": the phase is set and its status line
\* printed only when it changes.
EnterPhase(phase, name, status) ==
    IF phase # name THEN [phase |-> name, status |-> status]
    ELSE [phase |-> phase, status |-> ""]

\* The if/elif chain of the loop body: the phase after the line and the
\* status line printed for it ("" when none is).
DetectPhase(line, phase) ==
    IF Contains(line, "Reading in file:")
    THEN [phase |-> "Reading", status |-> "Phase: Reading file..."]
    ELSE IF Contains(line, "Processing: Node") \/ Contains(line, "Node(")
    THEN EnterPhase(phase, "Nodes", "Phase: Processing nodes...")
    ELSE IF Contains(line, "Processing: Way")
            \/ Contains(line, "Going over pending ways")
    THEN EnterPhase(phase, "Ways", "Phase: Processing ways...")
    ELSE IF Contains(line, "Processing: Relation")
    THEN EnterPhase(phase, "Relations", "Phase: Processing relations...")
    ELSE IF Contains(line, "Clustering") \/ Contains(line, "Creating indexes")
    THEN EnterPhase(phase, "Indexing", "Phase: Creating indexes...")
    ELSE [phase |-> phase, status |-> ""]

\* "for line in process.stdout" from processing_phase = phase: for each
\* line, the line, the phase after it and the status line printed for it.
RECURSIVE PhaseLog(_, _)
PhaseLog(lines, phase) ==
    IF lines = <<>> THEN <<>>
    ELSE LET d == DetectPhase(Head(lines), phase)
         IN  <<[line |-> Head(lines), phase |-> d.phase, status |-> d.status]>>
             \o PhaseLog(Tail(lines), d.phase)

\* upload_to_database(config, filtered_file): osm2pgsql --create runs to its
\* exit, its output is read line by line from processing_phase = "Reading".
\* A failing import may have created its tables already.
OsmUpload ==
    /\ job = "osm" /\ pc = "upload"
    /\ \E res \in {"not_found", "exit_nonzero", "exit_nonzero_tables", "ok"} :
         LET step == <<Ev("start", pc), Ev("osm2pgsql", res)>>
             made == [db EXCEPT !.tables =
                         @ \cup Osm2pgsqlTables(config.drop_slim_tables)]
         IN  /\ IF res = "not_found" THEN UNCHANGED phase_log
                ELSE \E out \in OutputsOf(OutputLines) :
                       phase_log' = PhaseLog(out, "Reading")
             /\ IF res = "ok" /\ Exists(fs, filtered_file)
                THEN /\ db' = made
                     /\ pc' = OsmNext(pc)
                     /\ trace' = trace \o step \o <<Ev("ok", pc)>>
                     /\ UNCHANGED <<outcome, exc>>
                ELSE /\ db' = IF res = "exit_nonzero_tables" THEN made ELSE db
                     /\ Fail(Exc("UploadError"), step)
    /\ UNCHANGED <<history, job, force, fs0, env, config, fs, response, raw_file,
                   filtered_file, layers>>

\* main, after the upload: "Cleanup filtered file if configured", return 0.
OsmCleanupFiltered ==
    /\ job = "osm" /\ pc = "cleanup_filtered"
    /\ IF config.cleanup /\ Exists(fs, filtered_file)
       THEN /\ fs' = Unlink(fs, filtered_file)
            /\ Return0(<<Ev("unlink", "filtered")>>)
       ELSE /\ Return0(<<>>)
            /\ UNCHANGED fs
    /\ UNCHANGED <<history, phase_log, job, force, fs0, env, config, exc, db, response, raw_file,
                   filtered_file, layers>>

-----------------------------------------------------------------------------
(* gadm-ingestion: config.py paths, download.py, upload.py                 *)

\* Config.raw_dir, Config.zip_dir, Config.md5_dir
GadmGpkgFile(c) == [dir |-> c.data_dir, name |-> <<"gadm_410-levels", ".gpkg">>]
GadmZipFile(c)  == [dir |-> c.data_dir, name |-> <<"gadm_410-levels", ".zip">>]
GadmMd5File(c)  == [dir |-> c.data_dir, name |-> <<"gadm_410-levels", ".md5">>]

\* _calculate_md5: the hex digest of a content, one token of text.  Distinct
\* contents have distinct digests.
CalculateMd5(content) == "md5:" \o ToString(content)

\* _read_md5 and the test "not stored_md5": the file is there and holds
\* more than whitespace.
HasStoredMd5(f, path) == Exists(f, path) /\ Strip(f[path]) # <<>>
ReadMd5(f, path) == Strip(f[path])

\* NeedsDownload without the digest: any archive on disk is accepted.
NeedsDownloadZipOnly(f, c) == ~Exists(f, GadmZipFile(c))

\* NeedsDownload without the comparison of the digests.
NeedsDownloadNoCompare(f, c) ==
    \/ ~Exists(f, GadmZipFile(c))
    \/ ~HasStoredMd5(f, GadmMd5File(c))

\* The condition of download_geopackage_levels under which it downloads.
NeedsDownload(f, c) ==
    \/ ~Exists(f, GadmZipFile(c))
    \/ ~HasStoredMd5(f, GadmMd5File(c))
    \/ <<CalculateMd5(f[GadmZipFile(c)])>> # ReadMd5(f, GadmMd5File(c))

\* _write_md5
WriteMd5(f, path, digest) == WriteFile(f, path, <<digest>>)

\* A zip archive is a sequence of member chunks closed by its end-of-central-
\* directory record "E".  "G" is a member gadm_410-levels.gpkg, "H" a member
\* gadm_410.gpkg, "N" a member gadm41.gpkg, "T" a member README.txt.
GadmChunks == {"G", "H", "N", "T", "E"}
IsZip(content) == content # <<>> /\ content[Len(content)] = "E"
ZipFilelist(content) ==
    SelectSeq(SubSeq(content, 1, Len(content) - 1), LAMBDA t : t # "E")
MemberName(t) ==
    CASE t = "G" -> <<"gadm_410-levels", ".gpkg">>
      [] t = "H" -> <<"gadm_410", ".gpkg">>
      [] t = "N" -> <<"gadm41", ".gpkg">>
      [] t = "T" -> <<"README", ".txt">>
MemberData(t) ==
    CASE t = "G" -> <<"gpkg_levels">>
      [] t = "H" -> <<"gpkg_mixed">>
      [] t = "N" -> <<"gpkg_named">>
      [] t = "T" -> <<"text">>

\* str.endswith('.gpkg')
EndsWithGpkg(name) == name[Len(name)] = ".gpkg"

\* _extract_gpkg on a readable archive: the first member whose name ends in
\* .gpkg is extracted beside the archive and renamed to gpkg_file.
ExtractGpkg(f, zip_file, gpkg_file) ==
    LET members == SelectSeq(ZipFilelist(f[zip_file]),
                             LAMBDA t : EndsWithGpkg(MemberName(t)))
    IN  IF members = <<>> THEN f
        ELSE LET extracted_file == [dir |-> zip_file.dir,
                                    name |-> MemberName(members[1])]
                 g == WriteFile(f, extracted_file, MemberData(members[1]))
             IN  IF extracted_file # gpkg_file
                 THEN Unlink(WriteFile(g, gpkg_file, g[extracted_file]),
                             extracted_file)
                 ELSE g

\* gpkg_contents: the feature layers of a GeoPackage, ORDER BY table_name.  A
\* layer name is the sequence of its parts between underscores.
GpkgLayers(content) ==
    CASE content = <<"gpkg_levels">> -> << <<"ADM", "0">>, <<"ADM", "1">> >>
      [] content = <<"gpkg_mixed">>  -> << <<"ADM", "0">>, <<"nolevel">> >>
      [] content = <<"gpkg_named">>  -> << <<"gadm41", "adm1">>,
                                           <<"gadm41", "adm2">> >>
      [] OTHER                       -> << >>

\* upload_levels_gpkg: parts = layer.split('_'); table_name = f"admin{parts[1]}"
LayerNameValid(parts) == ~(Len(parts) < 2)
TableName(parts) == "admin" \o parts[2]

\* download_geopackage_levels up to the first chunk: the skip when the
\* archive matches its stored digest, or requests.get, raise_for_status and
\* open(zip_file, 'wb').
GadmDownloadStart ==
    /\ job = "gadm" /\ pc = "download"
    /\ IF ~NeedsDownload(fs, config)
       THEN /\ pc' = "extract"
            /\ trace' = trace \o <<Ev("start", pc), Ev("skip", pc)>>
            /\ UNCHANGED <<fs, response, raw_file, outcome, exc>>
       ELSE \E res \in {"timeout", "request_error", "ok"} :
              LET step == <<Ev("start", pc), Ev("http_get", "gadm")>>
              IN  IF res # "ok"
                  THEN /\ Fail(Exc(IF res = "timeout" THEN "Timeout"
                                   ELSE "RequestException"), step)
                       /\ UNCHANGED <<fs, response, raw_file>>
                  ELSE /\ \E body \in BodiesOf(GadmChunks) : response' = body
                       /\ fs' = WriteFile(fs, GadmZipFile(config), <<>>)
                       /\ raw_file' = GadmZipFile(config)
                       /\ pc' = "download_streaming"
                       /\ trace' = trace \o step \o <<Ev("write", "zip")>>
                       /\ UNCHANGED <<outcome, exc>>
    /\ UNCHANGED <<history, phase_log, job, force, fs0, env, config, db, filtered_file, layers>>

\* One iteration of "for chunk in response.iter_content": the chunk is
\* written, or the transfer fails and the exception is re-raised.
GadmDownloadChunk ==
    /\ job = "gadm" /\ pc = "download_streaming" /\ response # <<>>
    /\ \E ok \in BOOLEAN :
         IF ok
         THEN /\ fs' = WriteFile(fs, raw_file, fs[raw_file] \o <<Head(response)>>)
              /\ response' = Tail(response)
              /\ UNCHANGED <<pc, outcome, exc, trace>>
         ELSE /\ response' = <<>>
              /\ Fail(Exc("RequestException"), <<>>)
              /\ UNCHANGED fs
    /\ UNCHANGED <<history, phase_log, job, force, fs0, env, config, db, raw_file, filtered_file, layers>>

\* The body is exhausted: the digest of the archive is stored.
GadmDownloadDone ==
    /\ job = "gadm" /\ pc = "download_streaming" /\ response = <<>>
    /\ fs' = WriteMd5(fs, GadmMd5File(config), CalculateMd5(fs[raw_file]))
    /\ history' = [history EXCEPT !.zip = fs[raw_file]]
    /\ pc' = "extract"
    /\ trace' = trace \o <<Ev("write", "md5")>>
    /\ UNCHANGED <<phase_log, job, force, fs0, env, config, outcome, exc, db, response,
                   raw_file, filtered_file, layers>>

\* _extract_gpkg(zip_file, gpkg_file), after which
\* download_geopackage_levels returns.
GadmExtract ==
    /\ job = "gadm" /\ pc = "extract"
    /\ IF ~IsZip(fs[GadmZipFile(config)])
       THEN /\ Fail(Exc("BadZipFile"), <<>>)
            /\ UNCHANGED fs
       ELSE /\ fs' = ExtractGpkg(fs, GadmZipFile(config), GadmGpkgFile(config))
            /\ pc' = "upload"
            /\ trace' = trace \o <<Ev("ok", "download")>>
            /\ UNCHANGED <<outcome, exc>>
    /\ UNCHANGED <<history, phase_log, job, force, fs0, env, config, db, response, raw_file,
                   filtered_file, layers>>

\* upload_levels_gpkg up to its loop: the GeoPackage is opened, its layers
\* are listed and the database connection is made.
GadmUploadStart ==
    /\ job = "gadm" /\ pc = "upload"
    /\ LET gpkg_path == GadmGpkgFile(config)
       IN  IF ~Exists(fs, gpkg_path)
           THEN /\ Fail(Exc("FileNotFoundError"), <<Ev("start", pc)>>)
                /\ UNCHANGED layers
           ELSE IF GpkgLayers(fs[gpkg_path]) = <<>>
           THEN /\ Fail(Exc("ValueError"), <<Ev("start", pc)>>)
                /\ UNCHANGED layers
           ELSE \E res \in {"operational_error", "ok"} :
                  LET step == <<Ev("start", pc), Ev("db_connect", "upload")>>
                  IN  IF res # "ok"
                      THEN /\ Fail(Exc("OperationalError"), step)
                           /\ UNCHANGED layers
                      ELSE /\ layers' = GpkgLayers(fs[gpkg_path])
                           /\ pc' = "upload_layer"
                           /\ trace' = trace \o step
                           /\ UNCHANGED <<outcome, exc>>
    /\ UNCHANGED <<history, phase_log, job, force, fs0, env, config, fs, db, response, raw_file,
                   filtered_file>>

\* One iteration of "for layer in layers": the name is checked, ogr2ogr
\* imports the layer into its table, the rows are counted.
GadmUploadLayer ==
    /\ job = "gadm" /\ pc = "upload_layer" /\ layers # <<>>
    /\ LET parts == Head(layers)
       IN  IF ~LayerNameValid(parts)
           THEN /\ Fail(Exc("ValueError"), <<>>)
                /\ UNCHANGED <<db, layers>>
           ELSE \E res \in {"not_found", "exit_nonzero", "ok"} :
                  LET step == <<Ev("ogr2ogr", TableName(parts))>>
                  IN  IF res # "ok"
                      THEN /\ Fail(Exc(IF res = "not_found"
                                       THEN "FileNotFoundError"
                                       ELSE "CalledProcessError"), step)
                           /\ UNCHANGED <<db, layers>>
                      ELSE /\ db' = [db EXCEPT !.tables = @ \cup {TableName(parts)}]
                           /\ layers' = Tail(layers)
                           /\ trace' = trace \o step
                           /\ UNCHANGED <<pc, outcome, exc>>
    /\ UNCHANGED <<history, phase_log, job, force, fs0, env, config, fs, response, raw_file,
                   filtered_file>>

\* The loop is over: upload_levels_gpkg returns.
GadmUploadDone ==
    /\ job = "gadm" /\ pc = "upload_layer" /\ layers = <<>>
    /\ pc' = "cleanup"
    /\ trace' = trace \o <<Ev("ok", "upload")>>
    /\ UNCHANGED <<history, phase_log, job, force, fs0, env, config, outcome, exc, fs, db, response,
                   raw_file, filtered_file, layers>>

\* cleanup_geopackage removing the archive and its digest as well.
CleanupGeopackageAndArchive(f, c) ==
    [p \in DOMAIN f \ {GadmGpkgFile(c), GadmZipFile(c), GadmMd5File(c)} |-> f[p]]

\* cleanup_geopackage: the files it leaves.
CleanupGeopackage(f, c) ==
    IF Exists(f, GadmGpkgFile(c)) THEN Unlink(f, GadmGpkgFile(c)) ELSE f

\* cleanup_geopackage(config), then main returns 0.
GadmCleanup ==
    /\ job = "gadm" /\ pc = "cleanup"
    /\ fs' = CleanupGeopackage(fs, config)
    /\ IF Exists(fs, GadmGpkgFile(config))
       THEN Return0(<<Ev("unlink", "gpkg")>>)
       ELSE Return0(<<Ev("not_found", "gpkg")>>)
    /\ UNCHANGED <<history, phase_log, job, force, fs0, env, config, exc, db, response, raw_file,
                   filtered_file, layers>>

-----------------------------------------------------------------------------
(* Initial states and the next-state relation                              *)

\* A variable left out of the environment.
Unset == <<"(unset)">>
EnvOf(f) == [k \in {k \in DOMAIN f : f[k] # Unset} |-> f[k]]

\* Values of a required variable: unset, empty, blank, set, set with padding.
RequiredValues == {Unset, <<>>, <<" ">>, <<"v">>, <<" ", "v">>}

DataDir == <<"/app/data">>
InitOsmRawFile == [dir |-> DataDir \o <<"raw">>,
                   name |-> <<"europe", "-latest", ".osm", ".pbf">>]
InitOsmFilteredFile == OsmFilteredFile([data_dir |-> DataDir], InitOsmRawFile)
InitZipFile == [dir |-> DataDir, name |-> <<"gadm_410-levels", ".zip">>]
InitMd5File == [dir |-> DataDir, name |-> <<"gadm_410-levels", ".md5">>]
InitGpkgFile == [dir |-> DataDir, name |-> <<"gadm_410-levels", ".gpkg">>]

\* The files listed in present, with their contents; Unset marks no file.
FilesOf(f) == [p \in {p \in DOMAIN f : f[p] # Unset} |-> f[p]]

FreshDb == [encoding |-> "UTF8", extensions |-> {}, tables |-> {}]

InitRun ==
    /\ config = [loaded |-> FALSE]
    /\ pc = "load_config"
    /\ outcome = Running
    /\ exc = NoExc
    /\ response = <<>>
    /\ raw_file = NoPath
    /\ filtered_file = NoPath
    /\ layers = <<>>
    /\ phase_log = <<>>
    /\ history = FirstRun
    /\ trace = <<>>
    /\ fs0 = fs

\* Any environment, against an empty data directory.
InitAnyEnv ==
    /\ job \in {"osm", "gadm"}
    /\ force = FALSE
    /\ \E f \in [DB_HOST : RequiredValues, DB_NAME : RequiredValues,
                 DB_USER : RequiredValues, DB_PASSWORD : RequiredValues,
                 DB_PORT : {Unset, <<"abc">>},
                 OSM_REGION : IF job = "osm"
                              THEN {Unset, <<" ">>, <<"europe">>,
                                    <<"planet", " ">>, <<"mars">>}
                              ELSE {Unset},
                 GADM_GEOPACKAGE_URL : IF job = "gadm"
                                       THEN {Unset, <<>>, <<" ">>, <<"url">>}
                                       ELSE {Unset}] :
         env = EnvOf(f)
    /\ fs = <<>>
    /\ db \in {FreshDb, [FreshDb EXCEPT !.tables = ExpectedTables(job)]}

ValidEnv ==
    [DB_HOST |-> <<"v">>, DB_NAME |-> <<"v">>, DB_USER |-> <<"v">>,
     DB_PASSWORD |-> <<"v">>]

\* A valid environment of the OSM job, against any data directory and
\* database.
InitAnyOsmWorld ==
    /\ job = "osm"
    /\ force = FALSE
    /\ \E f \in [OSM_REGION : {<<"europe">>},
                 CLEANUP : {Unset, <<"FALSE">>, <<"true">>},
                 DROP_SLIM_TABLES : {Unset, <<"1">>}] :
         env = ValidEnv @@ EnvOf(f)
    /\ \E f \in [{InitOsmRawFile} -> {Unset, <<>>, <<"c">>}],
          g \in [{InitOsmFilteredFile} -> {Unset, <<"roads", "c">>}] :
         fs = FilesOf(f) @@ FilesOf(g)
    /\ db \in [encoding : {"UTF8", "LATIN1"},
               extensions : {{}, {"postgis", "hstore"}},
               tables : {{}, {"planet_osm_line"}, {"admin0"}}]

\* A valid environment of the GADM job, against any data directory and
\* database, with and without --force.
InitAnyGadmWorld ==
    /\ job = "gadm"
    /\ force \in BOOLEAN
    /\ env = ValidEnv @@ [GADM_GEOPACKAGE_URL |-> <<"url">>]
    /\ \E z \in [{InitZipFile} -> {Unset, <<"G", "E">>, <<"T", "E">>, <<"G">>}],
          m \in [{InitMd5File} -> {Unset, <<>>, <<CalculateMd5(<<"G", "E">>)>>,
                                    <<CalculateMd5(<<"G", "E">>), " ">>,
                                    <<CalculateMd5(<<"T", "E">>)>>}],
          g \in [{InitGpkgFile} -> {Unset, <<"gpkg_levels">>}] :
         fs = FilesOf(z) @@ FilesOf(m) @@ FilesOf(g)
    /\ db \in [encoding : {"UTF8", "LATIN1"},
               extensions : {{}},
               tables : {{}, {"admin0"}, {"planet_osm_line"}}]

\* Any values of the optional integer and enumerated variables, the required
\* ones valid, against an empty data directory and a loaded database.
InitAnyOptions ==
    /\ job \in {"osm", "gadm"}
    /\ force = FALSE
    /\ \E f \in [DB_PORT : {Unset, <<>>, <<"6543">>, <<" ", "6543", " ">>,
                            <<"65", " ", "43">>},
                 CACHE_SIZE_MB : IF job = "osm"
                                 THEN {Unset, <<"8">>, <<"abc">>}
                                 ELSE {Unset},
                 NUM_PROCESSES : IF job = "osm"
                                 THEN {Unset, <<>>, <<"8">>, <<"8", "x">>}
                                 ELSE {Unset},
                 LOG_LEVEL : IF job = "osm"
                             THEN {Unset, <<>>, <<"debug">>, <<"ERROR">>,
                                   <<"verbose">>, <<" ", "INFO">>}
                             ELSE {Unset},
                 LOG_FORMAT : IF job = "osm"
                              THEN {Unset, <<"JSON">>, <<"text">>, <<"XML">>}
                              ELSE {Unset},
                 OSM_REGION : IF job = "osm"
                              THEN {<<"asia">>, <<" ", "planet">>}
                              ELSE {Unset},
                 GADM_GEOPACKAGE_URL : IF job = "gadm"
                                       THEN {<<"url">>, <<"url", " ">>}
                                       ELSE {Unset}] :
         env = ValidEnv @@ EnvOf(f)
    /\ fs = <<>>
    /\ db = [FreshDb EXCEPT !.tables = ExpectedTables(job)]

Init ==
    (InitAnyGadmWorld \/ InitAnyOsmWorld \/ InitAnyEnv \/ InitAnyOptions)
    /\ InitRun

Next ==
    \/ MainLoadConfig
    \/ VerifyConnection
    \/ MainCheckExistingData
    \/ OsmDownloadStart
    \/ OsmDownloadChunk
    \/ OsmDownloadDone
    \/ OsmFilter
    \/ OsmCleanupRaw
    \/ OsmUpload
    \/ OsmCleanupFiltered
    \/ GadmDownloadStart
    \/ GadmDownloadChunk
    \/ GadmDownloadDone
    \/ GadmExtract
    \/ GadmUploadStart
    \/ GadmUploadLayer
    \/ GadmUploadDone
    \/ GadmCleanup

Spec == Init /\ [][Next]_vars

\* cleanup_geopackage(config) called on its own, on any data directory.
InitCleanupCall ==
    /\ job = "gadm"
    /\ force = FALSE
    /\ env = ValidEnv @@ [GADM_GEOPACKAGE_URL |-> <<"url">>]
    /\ config = LoadConfig(job, env).config
    /\ pc = "cleanup"
    /\ outcome = Running
    /\ exc = NoExc
    /\ response = <<>>
    /\ raw_file = NoPath
    /\ filtered_file = NoPath
    /\ layers = <<>>
    /\ phase_log = <<>>
    /\ history = FirstRun
    /\ trace = <<>>
    /\ \E z \in [{InitZipFile} -> {Unset, <<"G", "E">>, <<"G">>}],
          m \in [{InitMd5File} -> {Unset, <<>>, <<CalculateMd5(<<"G", "E">>)>>}],
          g \in [{InitGpkgFile} -> {Unset, <<>>, <<"gpkg_levels">>}] :
         fs = FilesOf(z) @@ FilesOf(m) @@ FilesOf(g)
    /\ fs0 = fs
    /\ db = FreshDb

\* The GADM job: its driver from the start, and its cleanup on its own.
GadmInit == (InitAnyGadmWorld /\ InitRun) \/ InitCleanupCall

GadmNext ==
    \/ MainLoadConfig
    \/ VerifyConnection
    \/ MainCheckExistingData
    \/ GadmDownloadStart
    \/ GadmDownloadChunk
    \/ GadmDownloadDone
    \/ GadmExtract
    \/ GadmUploadStart
    \/ GadmUploadLayer
    \/ GadmUploadDone
    \/ GadmCleanup

GadmSpec == GadmInit /\ [][GadmNext]_vars

\* The process has exited and the job is started again, with the same
\* environment, against the data directory and the database as the run
\* before left them.
NextRun ==
    /\ pc = "exit"
    /\ history.run < MaxRuns
    /\ history' = [history EXCEPT !.run = @ + 1]
    /\ config' = [loaded |-> FALSE]
    /\ pc' = "load_config"
    /\ outcome' = Running
    /\ exc' = NoExc
    /\ response' = <<>>
    /\ raw_file' = NoPath
    /\ filtered_file' = NoPath
    /\ layers' = <<>>
    /\ phase_log' = <<>>
    /\ trace' = <<>>
    /\ fs0' = fs
    /\ UNCHANGED <<job, force, env, fs, db>>

\* The first run of a job with a valid environment, against an empty data
\* directory and a database without tables.
InitFirstRun ==
    /\ job \in {"osm", "gadm"}
    /\ force \in (IF job = "gadm" THEN BOOLEAN ELSE {FALSE})
    /\ \E f \in [OSM_REGION : IF job = "osm" THEN {<<"europe">>} ELSE {Unset},
                 CLEANUP : IF job = "osm" THEN {Unset, <<"FALSE">>}
                           ELSE {Unset},
                 GADM_GEOPACKAGE_URL : IF job = "gadm" THEN {<<"url">>}
                                       ELSE {Unset}] :
         env = ValidEnv @@ EnvOf(f)
    /\ fs = <<>>
    /\ db = FreshDb

RunsInit == InitFirstRun /\ InitRun

RunsNext ==
    \/ MainLoadConfig
    \/ VerifyConnection
    \/ MainCheckExistingData
    \/ OsmDownloadStart
    \/ OsmDownloadChunk
    \/ OsmDownloadDone
    \/ OsmFilter
    \/ OsmCleanupRaw
    \/ OsmUpload
    \/ OsmCleanupFiltered
    \/ GadmDownloadStart
    \/ GadmDownloadChunk
    \/ GadmDownloadDone
    \/ GadmExtract
    \/ GadmUploadStart
    \/ GadmUploadLayer
    \/ GadmUploadDone
    \/ GadmCleanup
    \/ NextRun

\* Runs of a job one after the other.
RunsSpec == RunsInit /\ [][RunsNext]_vars

-----------------------------------------------------------------------------
(* Properties                                                              *)

Has(ev) == \E i \in 1..Len(trace) : trace[i] = ev
Before(ev, i) == \E k \in 1..(i - 1) : trace[k] = ev
Tools == {"osmium", "osm2pgsql", "ogr2ogr"}
ConfigLoaded == pc # "load_config" /\ exc.type # "ConfigurationError"

\* C1: in both jobs, when check_existing_data reports an expected table and
\* there is no force override, the run makes no HTTP request, invokes no
\* external tool, creates no file, and main returns 0 right after the check.
C1_SkipOnExistingData ==
    (Has(Ev("existing", "true")) /\ ~force) =>
        /\ pc = "exit"
        /\ outcome = Returned(0)
        /\ trace[Len(trace)] = Ev("skip", "check_existing_data")
        /\ Did("http_get") = {}
        /\ \A t \in Tools : Did(t) = {}
        /\ Did("write") = {}
        /\ fs = fs0

C1_Witness ==
    /\ job = "gadm" /\ ~force /\ pc = "exit"
    /\ Has(Ev("existing", "true"))
    /\ outcome = Returned(0)
    /\ fs0 # <<>>

\* The exit code that belongs to the step of the OSM driver that failed.
C2_StepCode(step) ==
    CASE step = "load_config"         -> 1
      [] step = "verify_connection"   -> 4
      [] step = "check_existing_data" -> 4
      [] step = "download"            -> 2
      [] step = "download_streaming"  -> 2
      [] step = "filter"              -> 3
      [] step = "upload"              -> 4

\* C2: the OSM driver returns the code of the first step that fails (1
\* configuration, 4 database, 2 download, 3 filter, 4 upload), and returns 0
\* exactly when it short-circuits on existing data or every step succeeds.
C2_OsmExitCodes ==
    (job = "osm" /\ pc = "exit") =>
        /\ outcome.kind = "returned"
        /\ \A i \in Did("fail") : outcome.code = C2_StepCode(trace[i][2])
        /\ outcome.code = 0 <=> Did("fail") = {}
        /\ outcome.code = 0 <=>
               \/ Has(Ev("skip", "check_existing_data"))
               \/ /\ Has(Ev("ok", "download")) /\ Has(Ev("ok", "filter"))
                  /\ Has(Ev("ok", "upload"))

C2_Witness ==
    /\ job = "osm" /\ pc = "exit"
    /\ outcome = Returned(3)
    /\ Has(Ev("fail", "filter"))

\* C3: in each driver a failure of any step is caught at that step and main
\* returns a fixed exit code instead of letting the error propagate, and no
\* later step is attempted.
C3_EveryFailureBecomesExitCode ==
    \A i \in Did("fail") :
        /\ outcome.kind = "returned"
        /\ i = Len(trace)

\* C4: steps never overlap and run in order: filtering starts only after the
\* download step has succeeded, upload only after filtering (GADM: after
\* download and extraction) has succeeded, and no step starts after a failure.
C4_StepsInOrder ==
    \A i \in 1..Len(trace) :
        /\ trace[i][1] # "fail" => \A k \in 1..(i - 1) : trace[k][1] # "fail"
        /\ trace[i] \in {Ev("start", "filter")} \cup {Ev("osmium", r) :
                r \in {"not_found", "exit_nonzero", "exit_nonzero_partial", "ok"}}
              => Before(Ev("ok", "download"), i)
        /\ trace[i][1] \in {"osm2pgsql"} \/ trace[i] = Ev("start", "upload")
              => Before(Ev("ok", IF job = "osm" THEN "filter" ELSE "download"), i)
        /\ trace[i][1] = "ogr2ogr" => Before(Ev("ok", "download"), i)
        /\ trace[i][1] = "http_get"
              => \A k \in 1..(i - 1) : trace[k][1] \notin Tools
        /\ trace[i][1] = "osmium"
              => \A k \in 1..(i - 1) : trace[k][1] # "osm2pgsql"

C4_Witness ==
    /\ Has(Ev("start", "upload"))
    /\ Has(Ev("start", "filter"))
    /\ Has(Ev("http_get", "osm"))
    /\ pc = "exit"

\* C5 as stated: the driver's cleanup deletes no download or filtered
\* artifact before the upload step of the run has succeeded.
C5_CleanupOnlyAfterUpload ==
    \A i \in Did("unlink") : Before(Ev("ok", "upload"), i)

\* C5 amended: the filtered file (OSM) and the extracted GeoPackage (GADM)
\* are deleted by the driver only after the upload has succeeded, so a run
\* whose upload fails still has its filtered file; the OSM raw file is deleted
\* once the filter step has succeeded, which is before the upload starts.
C5_CleanupAmended ==
    /\ \A i \in Did("unlink") :
           IF trace[i][2] = "raw"
           THEN Before(Ev("ok", "filter"), i)
           ELSE Before(Ev("ok", "upload"), i)
    /\ DOMAIN fs0 \ DOMAIN fs # {} => Did("unlink") # {}
    /\ exc.type = "UploadError" => Exists(fs, filtered_file)
    /\ (job = "osm" /\ pc = "upload" /\ config.cleanup) => ~Exists(fs, raw_file)

C5_Witness ==
    /\ exc.type = "UploadError"
    /\ Has(Ev("unlink", "raw"))
    /\ ~Exists(fs, raw_file)
    /\ Exists(fs0, raw_file)

\* C6: OSM job, valid configuration with CLEANUP unset, no planet_osm_* table,
\* no raw and no filtered file on disk: when download, filter and upload all
\* succeed there is exactly one download, one osmium run and one osm2pgsql
\* run, in that order, main returns 0 and neither file exists at the end.
C6_Pre ==
    /\ job = "osm" /\ pc = "exit"
    /\ "CLEANUP" \notin DOMAIN env
    /\ Did("fail") = {}
    /\ Has(Ev("existing", "false"))
    /\ ~Exists(fs0, OsmOutputFile(config))
    /\ ~Exists(fs0, OsmFilteredFile(config, OsmOutputFile(config)))

C6_OsmEndToEnd ==
    C6_Pre =>
        /\ outcome = Returned(0)
        /\ Count("http_get") = 1 /\ Count("osmium") = 1 /\ Count("osm2pgsql") = 1
        /\ \A i \in Did("http_get"), j \in Did("osmium"), k \in Did("osm2pgsql") :
               i < j /\ j < k
        /\ ~Exists(fs, OsmOutputFile(config))
        /\ ~Exists(fs, OsmFilteredFile(config, OsmOutputFile(config)))

C6_Witness == C6_Pre /\ outcome = Returned(0) /\ Count("osm2pgsql") = 1

\* The archive on disk at the start of the run matches its stored digest.
C7_Matched0 ==
    /\ Exists(fs0, GadmZipFile(config))
    /\ Exists(fs0, GadmMd5File(config))
    /\ Strip(fs0[GadmMd5File(config)]) = <<CalculateMd5(fs0[GadmZipFile(config)])>>

\* C7: GADM download_geopackage_levels makes no HTTP request when the zip
\* exists and its MD5 equals the stored digest; otherwise (zip absent, digest
\* file absent or empty, digests differ) it makes exactly one GET and, when
\* that succeeds, the digest file holds the MD5 of the archive then on disk.
C7_ChecksumGatedFetch ==
    (job = "gadm" /\ Has(Ev("start", "download"))) =>
        /\ C7_Matched0 => Did("http_get") = {}
        /\ ~C7_Matched0 => Count("http_get") = 1
        /\ Has(Ev("write", "md5")) =>
               /\ ~C7_Matched0
               /\ fs[GadmMd5File(config)] =
                      <<CalculateMd5(fs[GadmZipFile(config)])>>
        /\ (~C7_Matched0 /\ Has(Ev("ok", "download"))) => Has(Ev("write", "md5"))

C7_Witness ==
    /\ job = "gadm" /\ Has(Ev("write", "md5"))
    /\ Exists(fs0, GadmZipFile(config))
    /\ Exists(fs0, GadmMd5File(config))
    /\ ~C7_Matched0
    /\ Strip(fs0[GadmMd5File(config)]) # <<>>
    /\ fs[GadmMd5File(config)] # fs0[GadmMd5File(config)]

\* C8: OSM download_region, when <data_dir>/raw/<region>-latest.osm.pbf
\* already exists, whatever it holds: no HTTP request, the file (and every
\* other file) is left as it was, and its path is returned.
C8_ExistingFileSkipsDownload ==
    (job = "osm" /\ ConfigLoaded /\ Exists(fs0, OsmOutputFile(config))) =>
        /\ Did("http_get") = {}
        /\ pc # "download_streaming"
        /\ pc = "filter" => fs = fs0 /\ raw_file = OsmOutputFile(config)

C8_Witness ==
    /\ job = "osm" /\ pc = "filter"
    /\ Exists(fs0, OsmOutputFile(config))
    /\ fs0[OsmOutputFile(config)] = <<>>

\* C9: OSM download_region, once the download has started: a failing request
\* or write raises DownloadError and leaves no destination file behind; on
\* success the destination path is returned and the file exists.
C9_NoPartialFile ==
    job = "osm" =>
        /\ (Has(Ev("fail", "download")) \/ Has(Ev("fail", "download_streaming"))) =>
               /\ exc.type = "DownloadError"
               /\ ~Exists(fs, OsmOutputFile(config))
        /\ (pc = "filter" /\ Has(Ev("http_get", "osm"))) =>
               /\ raw_file = OsmOutputFile(config)
               /\ Exists(fs, raw_file)

C9_Witness ==
    /\ job = "osm"
    /\ Has(Ev("fail", "download_streaming"))
    /\ Has(Ev("write", "raw"))
    /\ exc.type = "DownloadError"
    /\ outcome = Returned(2)

\* strip() of the variable's value is empty, or the variable is unset.
C10_Blank(e, key) == Strip(Getenv(e, key, <<>>)) = <<>>
C10_RequiredKeys(j) ==
    {"DB_HOST", "DB_NAME", "DB_USER", "DB_PASSWORD"}
    \cup (IF j = "gadm" THEN {"GADM_GEOPACKAGE_URL"} ELSE {"OSM_REGION"})

\* C10: in each job, when a required variable is absent, empty or blank,
\* load_config raises ConfigurationError, a message about a missing variable
\* names one that is missing, main returns 1, and no database connection,
\* HTTP request or external tool is attempted.
C10_MissingRequiredFailsFast ==
    (pc # "load_config" /\ \E k \in C10_RequiredKeys(job) : C10_Blank(env, k)) =>
        /\ exc.type = "ConfigurationError"
        /\ exc.kind = "required" => C10_Blank(env, exc.key)
        /\ outcome = Returned(1)
        /\ Did("db_connect") = {} /\ Did("http_get") = {}
        /\ \A t \in Tools : Did(t) = {}

\* The PipelineConfig invariant on a Config c read from the environment e:
\* an integer field is the integer its variable parses to, or the default
\* when the variable is unset or empty.
C11_IntField(e, key, default, value) ==
    IF Getenv(e, key, <<>>) = <<>> THEN value = default
    ELSE IntParses(e[key]) /\ value = IntOf(e[key])

C11_Invariant(j, e, c) ==
    /\ \A field \in {"db_host", "db_name", "db_user", "db_password"} :
          c[field] # <<>>
    /\ C11_IntField(e, "DB_PORT", 5432, c.db_port)
    /\ IF j = "gadm"
       THEN c.gadm_geopackage_url # <<>>
       ELSE /\ c.region \in REGIONS
            /\ C11_IntField(e, "CACHE_SIZE_MB", 2000, c.cache_size_mb)
            /\ C11_IntField(e, "NUM_PROCESSES", 4, c.num_processes)
            /\ c.log_level \in {<<"DEBUG">>, <<"INFO">>, <<"WARNING">>,
                                <<"ERROR">>}
            /\ c.log_format \in {<<"json">>, <<"text">>}

\* An environment no valid Config can be read from: a required variable
\* unset or empty, an integer variable set to something that is no integer.
C11_IntKeys(j) ==
    {"DB_PORT"} \cup (IF j = "osm" THEN {"CACHE_SIZE_MB", "NUM_PROCESSES"}
                      ELSE {})
C11_EnvViolates(j, e) ==
    \/ \E k \in C10_RequiredKeys(j) : Getenv(e, k, <<>>) = <<>>
    \/ \E k \in C11_IntKeys(j) :
          Getenv(e, k, <<>>) # <<>> /\ ~IntParses(e[k])

\* C11: load_config either raises ConfigurationError or returns a Config
\* whose required fields are non-empty, whose integer fields are the parsed
\* integers of their variables or the defaults 5432, 2000 and 4, and (OSM)
\* whose region, log_level and log_format are members of their allowed sets;
\* an environment with a missing required variable or a non-numeric integer
\* variable makes it raise.
C11_ConfigInvariant ==
    pc # "load_config" =>
        /\ exc.type # "ConfigurationError" => C11_Invariant(job, env, config)
        /\ C11_EnvViolates(job, env) => exc.type = "ConfigurationError"

\* A Config was returned with an integer read from a padded variable, and
\* another run was refused for a variable that is no integer.
C11_Witness ==
    /\ pc = "check_existing_data"
    /\ job = "osm"
    /\ "DB_PORT" \in DOMAIN env /\ env["DB_PORT"] = <<" ", "6543", " ">>
    /\ config.db_port = 6543
    /\ config.cache_size_mb = 8
    /\ config.num_processes = 4
    /\ config.log_level = <<"DEBUG">>
    /\ config.log_format = <<"json">>

\* C12: every table a GADM run passes to ogr2ogr as -nln, and every table
\* the import leaves in the database, is one of admin0..admin5; in
\* particular the layer gadm41_adm2 is imported into admin2.
C12_LayerToTable ==
    job = "gadm" =>
        /\ \A i \in Did("ogr2ogr") : trace[i][2] \in GadmExpectedTables
        /\ (pc = "upload_layer" /\ layers # <<>>
            /\ Head(layers) = <<"gadm41", "adm2">>) =>
               TableName(Head(layers)) = "admin2"

\* C13: when upload_levels_gpkg raises ValueError for a layer name with fewer
\* than two underscore-delimited parts, ogr2ogr has not been invoked in that
\* call: no layer has been imported.
C13_InvalidNameBeforeAnyImport ==
    (job = "gadm" /\ exc.type = "ValueError") => Did("ogr2ogr") = {}

\* C14: in an OSM run the raw download is <data_dir>/raw/<region>-latest.osm.pbf
\* and the file filter_osm_data reads or writes for that raw path, and
\* returns, is exactly <data_dir>/filtered/<region>-roads.osm.pbf.
C14_FilteredPath ==
    (job = "osm" /\ filtered_file # NoPath) =>
        /\ raw_file = [dir |-> config.data_dir \o <<"raw">>,
                       name |-> <<config.region, "-latest", ".osm", ".pbf">>]
        /\ filtered_file = [dir |-> config.data_dir \o <<"filtered">>,
                            name |-> <<config.region, "-roads", ".osm", ".pbf">>]

\* What check_existing_data returned in this run.
C15_Checked(answer) == Has(Ev("existing", answer))

\* C15: in a GADM run whose configuration and database verification
\* succeeded and whose existence check returned, with --force the skip is not
\* taken whether or not admin tables exist: the run goes on to the download,
\* and when it returns 0 the download and the upload were done and the
\* GeoPackage is cleaned up.  Without --force that happens only when no admin
\* table exists; otherwise the run stops at the check without starting the
\* download.
C15_ForceBypassesSkip ==
    (job = "gadm" /\ (C15_Checked("true") \/ C15_Checked("false"))) =>
        IF force \/ C15_Checked("false")
        THEN /\ ~Has(Ev("skip", "check_existing_data"))
             /\ Has(Ev("ok", "check_existing_data"))
             /\ pc \in {"download", "download_streaming", "extract", "upload",
                        "upload_layer", "cleanup", "exit"}
             /\ pc \notin {"download", "exit"} => Has(Ev("start", "download"))
             /\ (pc = "exit" /\ outcome = Returned(0)) =>
                    /\ Has(Ev("ok", "download"))
                    /\ Has(Ev("ok", "upload"))
                    /\ ~Exists(fs, GadmGpkgFile(config))
        ELSE /\ Has(Ev("skip", "check_existing_data"))
             /\ ~Has(Ev("start", "download"))
             /\ outcome = Returned(0)

\* A forced run over existing admin tables that downloaded, uploaded and
\* cleaned up.
C15_Witness ==
    /\ job = "gadm" /\ force /\ C15_Checked("true")
    /\ pc = "exit" /\ outcome = Returned(0)
    /\ Did("http_get") # {} /\ Did("ogr2ogr") # {}
    /\ Has(Ev("unlink", "gpkg"))

\* C16: a GADM run that finds the database not UTF8 issues the update of the
\* encoding and does not raise for the encoding: it goes on to create the
\* extensions unless a statement fails.  An OSM run that finds it raises
\* DatabaseError with no extension created, and main returns 4 without a
\* download.
C16_EncodingPolicy ==
    Has(Ev("encoding", "LATIN1")) =>
        IF job = "gadm"
        THEN /\ Has(Ev("update_encoding", "UTF8"))
             /\ \/ Has(Ev("sql_error", "verify_connection"))
                \/ /\ Has(Ev("create_extension", "postgis"))
                   /\ Has(Ev("create_extension", "hstore"))
                   /\ Has(Ev("ok", "verify_connection"))
                   /\ db.encoding = "UTF8"
                   /\ {"postgis", "hstore"} \subseteq db.extensions
        ELSE /\ exc.type = "DatabaseError"
             /\ Did("update_encoding") = {} /\ Did("create_extension") = {}
             /\ db.encoding = "LATIN1"
             /\ outcome = Returned(4)
             /\ Did("http_get") = {} /\ Did("write") = {}
             /\ \A t \in Tools : Did(t) = {}
             /\ fs = fs0

\* A GADM run went past a LATIN1 database and started its download.
C16_Witness ==
    /\ job = "gadm" /\ Has(Ev("encoding", "LATIN1"))
    /\ Has(Ev("ok", "verify_connection"))
    /\ Did("http_get") # {}

\* C17: no step of the GADM job removes the archive or its digest file;
\* cleanup_geopackage removes the extracted GeoPackage and nothing else,
\* leaves every other file as it was, and when the GeoPackage is already
\* missing it reports that and returns normally with no file changed.
C17_Step ==
    (job = "gadm" /\ pc \notin {"load_config", "exit"}) =>
        LET zip_file  == GadmZipFile(config)
            md5_file  == GadmMd5File(config)
            gpkg_file == GadmGpkgFile(config)
        IN  /\ Exists(fs, zip_file) => Exists(fs', zip_file)
            /\ Exists(fs, md5_file) => Exists(fs', md5_file)
            /\ pc = "cleanup" =>
                   /\ DOMAIN fs' = DOMAIN fs \ {gpkg_file}
                   /\ \A p \in DOMAIN fs' : fs'[p] = fs[p]
                   /\ exc' = NoExc /\ outcome' = Returned(0)
                   /\ ~Exists(fs, gpkg_file) =>
                          /\ fs' = fs
                          /\ trace' = trace \o <<Ev("not_found", "gpkg")>>

C17_CleanupFrame == [][C17_Step]_vars

\* cleanup_geopackage found no GeoPackage beside an archive and its digest,
\* and returned.
C17_Witness ==
    /\ job = "gadm" /\ pc = "exit" /\ outcome = Returned(0)
    /\ Has(Ev("not_found", "gpkg"))
    /\ Exists(fs, GadmZipFile(config)) /\ Exists(fs, GadmMd5File(config))
    /\ fs = fs0

\* The .gpkg members of an archive, in the order of its file list.
C18_GpkgMembers(content) ==
    SelectSeq(ZipFilelist(content), LAMBDA t : EndsWithGpkg(MemberName(t)))

\* C18: when download_geopackage_levels has returned normally, the canonical
\* GeoPackage exists and holds what the archive now on disk has for its
\* .gpkg member.
C18_GpkgFromCurrentArchive ==
    (job = "gadm" /\ pc = "upload") =>
        LET members == C18_GpkgMembers(fs[GadmZipFile(config)])
        IN  /\ Exists(fs, GadmGpkgFile(config))
            /\ members # <<>>
            /\ fs[GadmGpkgFile(config)] = MemberData(members[1])

\* The phase of the import a line of osm2pgsql is written in ("" for a line
\* that belongs to no phase).
C19_ToolPhase(line) ==
    CASE line = "Reading in file: europe.osm-roads.osm.pbf"       -> "Reading"
      [] line = "Processing: Node(100k 10.0k/s)"                 -> "Nodes"
      [] line = "Processing: Node(100k 10.0k/s) Way(5k 1.00k/s)" -> "Ways"
      [] line = "Processing: Way(5k 1.00k/s)"                    -> "Ways"
      [] line = "Processing: Relation(1k 1.00k/s)"               -> "Relations"
      [] line = "Creating indexes on planet_osm_line"            -> "Indexing"
      [] OTHER                                                   -> ""

\* C19: over the output of osm2pgsql, upload_to_database prints a status
\* line for a line exactly when the detected phase changes at that line, and
\* a line written in the node, way or relation phase leaves that phase
\* detected.
C19_OneStatusPerTransition ==
    \A i \in 1..Len(phase_log) :
        LET before == IF i = 1 THEN "Reading" ELSE phase_log[i - 1].phase
        IN  /\ phase_log[i].status # "" <=> phase_log[i].phase # before
            /\ C19_ToolPhase(phase_log[i].line) \in {"Nodes", "Ways", "Relations"}
                   => phase_log[i].phase = C19_ToolPhase(phase_log[i].line)

\* The tables the loader of this run created.
C20_Created ==
    IF job = "osm" THEN Osm2pgsqlTables(config.drop_slim_tables)
    ELSE {trace[i][2] : i \in Did("ogr2ogr")}

\* C20: when a run of either job has done its upload and returned 0, the
\* tables its loader created include a table that job's check_existing_data
\* tests for, so that a following run without --force finds existing data
\* and stops at the existence check.
C20_NextRunShortCircuits ==
    (pc = "exit" /\ outcome = Returned(0) /\ Has(Ev("ok", "upload"))) =>
        /\ C20_Created \cap ExpectedTables(job) # {}
        /\ ShortCircuit(job, CheckExistingData(job, db), FALSE)

\* C21: over the runs of the OSM job against one data directory, the file
\* main passes to upload_to_database is there and holds what an osmium that
\* exited 0 wrote to it: filter_osm_data does not accept the output a failed
\* osmium of an earlier run left behind.
C21_UploadsOnlyFilteredOutput ==
    (job = "osm" /\ pc = "upload") =>
        /\ Exists(fs, filtered_file)
        /\ fs[filtered_file] = history.filtered

\* The archive and its digest file in the data directory of the runs.
C22_Zip == GadmZipFile([data_dir |-> DataDir])
C22_Md5 == GadmMd5File([data_dir |-> DataDir])

\* C22: over the runs of the GADM job against one data directory, the digest
\* file is written only by a download that completed without raising and
\* holds the digest of that download's complete body; the checksum skip is
\* taken only when the archive on disk is that complete body; and after a
\* download that failed, the digest file is as the run found it and the
\* archive and digest left behind are refused by the checksum test.
C22_SkipOnlyCompleteArchive ==
    job = "gadm" =>
        /\ Exists(fs, C22_Md5) =>
               /\ history.zip # NoFile
               /\ fs[C22_Md5] = <<CalculateMd5(history.zip)>>
        /\ Has(Ev("skip", "download")) =>
               Exists(fs, C22_Zip) /\ fs[C22_Zip] = history.zip
        /\ Has(Ev("write", "md5")) =>
               /\ ~Has(Ev("fail", "download"))
               /\ ~Has(Ev("fail", "download_streaming"))
               /\ fs[C22_Zip] = history.zip
        /\ (Has(Ev("fail", "download")) \/ Has(Ev("fail", "download_streaming"))) =>
               /\ Exists(fs, C22_Md5) <=> Exists(fs0, C22_Md5)
               /\ Exists(fs, C22_Md5) => fs[C22_Md5] = fs0[C22_Md5]
               /\ NeedsDownload(fs, [data_dir |-> DataDir])

\* A download failed after part of the archive was written, and the run
\* after it refused what was left and downloaded the archive again.
C22_Witness ==
    /\ job = "gadm" /\ history.run = 2
    /\ Exists(fs0, C22_Zip) /\ fs0[C22_Zip] # <<>>
    /\ history.zip = NoFile
    /\ Has(Ev("http_get", "gadm"))
    /\ pc = "download_streaming"

====
